---------------------------- MODULE Spec2Model ----------------------------
(***************************************************************************)
(* Model of the payroll CLI of RefactoringAntonioRomero.py.                *)
(*                                                                         *)
(* Text is a sequence of one-character strings, so that str.strip(),       *)
(* float() and the f-string formatting are computed, not assumed.          *)
(* A float is a record [k, v]: k is "fin", "inf", "ninf" or "nan"; for a   *)
(* finite float v is its value in hundredths (0 otherwise).  The values    *)
(* the model draws are whole numbers and the rates have two decimals, so   *)
(* every product and difference is exact in hundredths; binary rounding    *)
(* of IEEE doubles is not modelled.                                        *)
(***************************************************************************)
EXTENDS Integers, Sequences, FiniteSets, TLC

VARIABLES
    pc,          \* where main() is: "start", "choice", "name", "salary", "exited",
                 \* or "assert_failed" once the assertion of line 215 has failed
    employees,   \* PayrollSystem._employees
    department,  \* the department of the add flow in progress (None outside it)
    name,        \* the name accepted by the add flow in progress (<<>> outside it)
    line,        \* the line most recently returned by input(), untrimmed
    at,          \* the prompt that line answered ("none" before any input)
    out,         \* the output lines printed since the previous input() returned
    calls        \* history: the arguments of every add_employee call, in call order

vars == <<pc, employees, department, name, line, at, out, calls>>

-----------------------------------------------------------------------------
(* Bounds *)

\* The add options are offered while the store holds fewer records than this.
MaxEmployees == 2

\* Longest token handed to from_menu_option in the direct-call specification.
MaxTokenLen == 3

-----------------------------------------------------------------------------
(* Text *)

Whitespace == {" ", "\t"}

RECURSIVE LStrip(_)
LStrip(s) ==
    IF s # <<>> /\ Head(s) \in Whitespace THEN LStrip(Tail(s)) ELSE s

RECURSIVE RStrip(_)
RStrip(s) ==
    IF s # <<>> /\ s[Len(s)] \in Whitespace
    THEN RStrip(SubSeq(s, 1, Len(s) - 1))
    ELSE s

\* Mutant of Strip: trims the left side only.
StripLeftOnly(s) == LStrip(s)

\* Mutant of Strip: also drops the whitespace inside the text.
StripAllSpaces(s) == SelectSeq(s, LAMBDA c : c \notin Whitespace)

\* str.strip()
Strip(s) == RStrip(LStrip(s))


\* A string literal of the source, as text.
Ventas == <<"V", "e", "n", "t", "a", "s">>
ITLabel == <<"I", "T">>
RRHH == <<"R", "R", "H", "H">>

DigitChars == <<"0", "1", "2", "3", "4", "5", "6", "7", "8", "9">>

IsDigit(c) == \E i \in 1..10 : DigitChars[i] = c

DigitVal(c) == (CHOOSE i \in 1..10 : DigitChars[i] = c) - 1

-----------------------------------------------------------------------------
(* class Department *)

Departments == {"SALES", "IT", "HR"}

None == "None"

\* Department.value, the display label
Label(d) ==
    CASE d = "SALES" -> Ventas
      [] d = "IT" -> ITLabel
      [] d = "HR" -> RRHH

\* Mutant of from_menu_option: trims the token before the lookup.
from_menu_option_trimming(option) ==
    LET t == Strip(option) IN
    CASE t = <<"1">> -> "SALES"
      [] t = <<"2">> -> "IT"
      [] t = <<"3">> -> "HR"
      [] OTHER -> None

\* Mutant of from_menu_option: the mapping has no entry for "3".
from_menu_option_missing_hr(option) ==
    CASE option = <<"1">> -> "SALES"
      [] option = <<"2">> -> "IT"
      [] OTHER -> None

\* Mutant of from_menu_option: options 2 and 3 exchanged.
from_menu_option_swapped(option) ==
    CASE option = <<"1">> -> "SALES"
      [] option = <<"2">> -> "HR"
      [] option = <<"3">> -> "IT"
      [] OTHER -> None

\* Department.from_menu_option: mapping.get(option)
from_menu_option(option) ==
    CASE option = <<"1">> -> "SALES"
      [] option = <<"2">> -> "IT"
      [] option = <<"3">> -> "HR"
      [] OTHER -> None

-----------------------------------------------------------------------------
(* float *)

Fin(v) == [k |-> "fin", v |-> v]
Nan == [k |-> "nan", v |-> 0]
PosInf == [k |-> "inf", v |-> 0]
NegInf == [k |-> "ninf", v |-> 0]

\* -1, 0 or 1 for a float that is not nan
Sign(a) ==
    CASE a.k = "inf" -> 1
      [] a.k = "ninf" -> -1
      [] a.v > 0 -> 1
      [] a.v < 0 -> -1
      [] OTHER -> 0

\* a * b
FMul(a, b) ==
    IF a.k = "nan" \/ b.k = "nan" THEN Nan
    ELSE IF a.k = "fin" /\ b.k = "fin" THEN Fin((a.v * b.v) \div 100)
    ELSE IF Sign(a) * Sign(b) = 0 THEN Nan
    ELSE IF Sign(a) * Sign(b) > 0 THEN PosInf
    ELSE NegInf

\* a - b
FSub(a, b) ==
    IF a.k = "nan" \/ b.k = "nan" THEN Nan
    ELSE IF a.k = "fin" /\ b.k = "fin" THEN Fin(a.v - b.v)
    ELSE IF a.k = "fin" THEN (IF b.k = "inf" THEN NegInf ELSE PosInf)
    ELSE IF b.k = "fin" THEN a
    ELSE IF a.k = b.k THEN Nan
    ELSE a

\* a > b; every comparison with nan is false
FGt(a, b) ==
    IF a.k = "nan" \/ b.k = "nan" THEN FALSE
    ELSE IF a.k = "fin" /\ b.k = "fin" THEN a.v > b.v
    ELSE IF a.k = b.k THEN FALSE
    ELSE a.k = "inf" \/ b.k = "ninf"

\* the builtin max(a, b): the first argument unless the second is greater
PyMax(a, b) == IF FGt(b, a) THEN b ELSE a

\* float(raw) raising ValueError
ValueError == [k |-> "err", v |-> 0]

RECURSIVE DecimalValue(_)
DecimalValue(s) ==
    IF s = <<>> THEN 0
    ELSE 10 * DecimalValue(SubSeq(s, 1, Len(s) - 1)) + DigitVal(s[Len(s)])

\* float(raw) for text over digits, signs, letters and blanks: surrounding
\* whitespace is ignored, then an optional sign and either decimal digits,
\* "inf" or "nan"; anything else is a ValueError.
float(raw) ==
    LET s == Strip(raw)
        signed == s # <<>> /\ Head(s) \in {"+", "-"}
        neg == s # <<>> /\ Head(s) = "-"
        body == IF signed THEN Tail(s) ELSE s
    IN  IF body = <<"i", "n", "f">> THEN (IF neg THEN NegInf ELSE PosInf)
        ELSE IF body = <<"n", "a", "n">> THEN Nan
        ELSE IF body # <<>> /\ \A i \in 1..Len(body) : IsDigit(body[i])
        THEN Fin((IF neg THEN -100 ELSE 100) * DecimalValue(body))
        ELSE ValueError

RECURSIVE DecimalDigits(_)
DecimalDigits(n) ==
    IF n < 10 THEN <<DigitChars[n + 1]>>
    ELSE DecimalDigits(n \div 10) \o <<DigitChars[(n % 10) + 1]>>

\* The text an f-string gives a float: repr(x), for magnitudes below 1e16.
FormatFloat(x) ==
    CASE x.k = "nan" -> <<"n", "a", "n">>
      [] x.k = "inf" -> <<"i", "n", "f">>
      [] x.k = "ninf" -> <<"-", "i", "n", "f">>
      [] OTHER ->
            LET m == IF x.v < 0 THEN -x.v ELSE x.v
                fr == m % 100
            IN  (IF x.v < 0 THEN <<"-">> ELSE <<>>)
                \o DecimalDigits(m \div 100) \o <<".">>
                \o (IF fr % 10 = 0
                    THEN <<DigitChars[(fr \div 10) + 1]>>
                    ELSE <<DigitChars[(fr \div 10) + 1], DigitChars[(fr % 10) + 1]>>)

-----------------------------------------------------------------------------
(* class PayrollCalculator *)

TAX_RATES == [d \in Departments |-> IF d = "HR" THEN Fin(16) ELSE Fin(15)]

CAFETERIA_DISCOUNT == Fin(5000)

\* Mutant of calculate_net_salary: the discount is taken before the tax.
calculate_net_salary_discount_first(gross_salary, dept) ==
    LET base == FSub(gross_salary, CAFETERIA_DISCOUNT)
    IN  PyMax(FSub(base, FMul(base, TAX_RATES[dept])), Fin(0))

\* PayrollCalculator.calculate_net_salary
calculate_net_salary(gross_salary, dept) ==
    LET tax_rate == TAX_RATES[dept]
        tax_amount == FMul(gross_salary, tax_rate)
        net == FSub(FSub(gross_salary, tax_amount), CAFETERIA_DISCOUNT)
    IN  PyMax(net, Fin(0))

-----------------------------------------------------------------------------
(* class Employee, class PayrollSystem *)

Employee(n, d, g, net) ==
    [name |-> n, department |-> d, gross_salary |-> g, net_salary |-> net]

\* Mutant of add_employee: the new record goes to the front of the list.
add_employee_prepend(emps, n, d, g) ==
    <<Employee(n, d, g, calculate_net_salary(g, d))>> \o emps

\* Mutant of add_employee: a record with a name already stored replaces it.
add_employee_upsert(emps, n, d, g) ==
    LET e == Employee(n, d, g, calculate_net_salary(g, d))
    IN  IF \E i \in 1..Len(emps) : emps[i].name = n
        THEN [i \in 1..Len(emps) |-> IF emps[i].name = n THEN e ELSE emps[i]]
        ELSE Append(emps, e)

\* Mutant of add_employee: the net salary is computed for Sales, whatever
\* the department.
add_employee_sales_rate(emps, n, d, g) ==
    Append(emps, Employee(n, d, g, calculate_net_salary(g, "SALES")))

\* PayrollSystem.add_employee: the list after the call
add_employee(emps, n, d, g) ==
    LET net_salary == calculate_net_salary(g, d)
        employee == Employee(n, d, g, net_salary)
    IN  Append(emps, employee)

\* Mutant of has_employees: >= in place of >.
has_employees_ge(emps) == Len(emps) >= 0

\* Mutant of has_employees: true from the second record on.
has_employees_off_by_one(emps) == Len(emps) > 1

\* PayrollSystem.has_employees
has_employees(emps) == Len(emps) > 0

\* PayrollSystem.iter_employees
iter_employees(emps) == emps

-----------------------------------------------------------------------------
(* Console output.  A printed line is its fixed text with the formatted    *)
(* value, if any, at {}.  A prompt is the text input() writes.             *)

Lit(text) == [fmt |-> text, arg |-> <<>>]
Fmt(text, value) == [fmt |-> text, arg |-> value]

Prompt(text) == Lit(text)

ChoicePrompt == "Seleccione opcion: "
NamePrompt == "Nombre: "
SalaryPrompt == "Sueldo Bruto: "

\* print_header()
print_header ==
    << Lit("********************************"),
       Lit("SISTEMA DE NOMINAS V2.3 FINAL_REAL_AHORA_SI"),
       Lit("********************************") >>

\* print_menu()
print_menu ==
    << Lit(""),
       Lit("1. Agregar empleado Ventas"),
       Lit("2. Agregar empleado IT"),
       Lit("3. Agregar empleado RRHH"),
       Lit("4. Ver reporte"),
       Lit("5. Salir"),
       Lit("") >>

\* The four lines print_report prints for one employee.
ReportBlock(e) ==
    << Fmt("Emp: {}", e.name),
       Fmt("Depto: {}", Label(e.department)),
       Fmt("Pago Final: {}", FormatFloat(e.net_salary)),
       Lit("----------------") >>

RECURSIVE ReportBlocks(_)
ReportBlocks(emps) ==
    IF emps = <<>> THEN <<>>
    ELSE ReportBlock(Head(emps)) \o ReportBlocks(Tail(emps))

\* print_report(system): the lines printed
print_report(emps) ==
    IF ~has_employees(emps) THEN <<Lit("No hay nadie")>>
    ELSE ReportBlocks(iter_employees(emps))

\* Mutant of LoopTop: print_menu() is called once, before the loop.
LoopTopPromptOnly == <<Prompt(ChoicePrompt)>>

\* What the top of the main loop prints: the menu, then the choice prompt.
LoopTop == print_menu \o <<Prompt(ChoicePrompt)>>

-----------------------------------------------------------------------------
(* Lines the user types *)

MenuInputs ==
    { <<"1">>, <<" ", "1">>, <<"2">>, <<"3">>, <<"4">>, <<"5">>,
      <<" ", "5", " ">>, <<"9">>, <<>> }

NameInputs ==
    { <<>>, <<" ">>, <<"A", " ", "B">>, <<" ", "A", " ", "B", " ">>, <<"5">> }

SalaryInputs ==
    { <<"1", "0", "0", "0">>, <<"2", "0", "0">>, <<"1", "0">>, <<" ", "1", "0">>,
      <<"0">>, <<"-", "5">>, <<"5">>, <<"i", "n", "f">>, <<"-", "i", "n", "f">>,
      <<"n", "a", "n">>, <<"a", "b", "c">>, <<>> }

-----------------------------------------------------------------------------
(* main() *)

Init ==
    /\ pc = "start"
    /\ employees = <<>>
    /\ department = None
    /\ name = <<>>
    /\ line = <<>>
    /\ at = "none"
    /\ out = <<>>
    /\ calls = <<>>

\* system = PayrollSystem(); print_header(); the first pass to the choice prompt
Start ==
    /\ pc = "start"
    /\ pc' = "choice"
    /\ out' = print_header \o LoopTop
    /\ UNCHANGED <<employees, department, name, line, at, calls>>

\* option in {"1", "2", "3"}: resolve the department, enter handle_add_employee
AddOption(l) ==
    LET option == Strip(l) IN
    /\ pc = "choice"
    /\ option \in {<<"1">>, <<"2">>, <<"3">>}
    /\ Len(employees) < MaxEmployees
    /\ line' = l
    /\ at' = ChoicePrompt
    /\ department' = from_menu_option(option)
    /\ IF department' = None
       THEN \* assert department is not None
            /\ pc' = "assert_failed"
            /\ out' = <<>>
       ELSE /\ pc' = "name"
            /\ out' = <<Prompt(NamePrompt)>>
    /\ UNCHANGED <<employees, name, calls>>

\* Mutant of ReportOption: the list is emptied once it has been printed.
ReportOptionDrains(l) ==
    LET option == Strip(l) IN
    /\ pc = "choice"
    /\ option = <<"4">>
    /\ line' = l
    /\ at' = ChoicePrompt
    /\ out' = print_report(employees) \o LoopTop
    /\ employees' = <<>>
    /\ UNCHANGED <<pc, department, name, calls>>

\* option == "4": print_report, back to the top of the loop
ReportOption(l) ==
    LET option == Strip(l) IN
    /\ pc = "choice"
    /\ option = <<"4">>
    /\ line' = l
    /\ at' = ChoicePrompt
    /\ out' = print_report(employees) \o LoopTop
    /\ UNCHANGED <<pc, employees, department, name, calls>>

\* option == "5": break
ExitOption(l) ==
    LET option == Strip(l) IN
    /\ pc = "choice"
    /\ option = <<"5">>
    /\ line' = l
    /\ at' = ChoicePrompt
    /\ pc' = "exited"
    /\ out' = <<>>
    /\ UNCHANGED <<employees, department, name, calls>>

\* Mutant of InvalidOption: the else branch leaves the loop.
InvalidOptionBreaks(l) ==
    LET option == Strip(l) IN
    /\ pc = "choice"
    /\ option \notin {<<"1">>, <<"2">>, <<"3">>, <<"4">>, <<"5">>}
    /\ line' = l
    /\ at' = ChoicePrompt
    /\ pc' = "exited"
    /\ out' = <<Lit("Error")>>
    /\ UNCHANGED <<employees, department, name, calls>>

\* else: print("Error"), back to the top of the loop
InvalidOption(l) ==
    LET option == Strip(l) IN
    /\ pc = "choice"
    /\ option \notin {<<"1">>, <<"2">>, <<"3">>, <<"4">>, <<"5">>}
    /\ line' = l
    /\ at' = ChoicePrompt
    /\ out' = <<Lit("Error")>> \o LoopTop
    /\ UNCHANGED <<pc, employees, department, name, calls>>

\* Mutant of NameEntered: the line is tested and returned without strip().
NameEnteredUnstripped(l) ==
    /\ pc = "name"
    /\ line' = l
    /\ at' = NamePrompt
    /\ IF l # <<>>
       THEN /\ name' = l
            /\ pc' = "salary"
            /\ out' = <<Prompt(SalaryPrompt)>>
       ELSE /\ out' = <<Lit("Entrada vacía. Intente nuevamente."), Prompt(NamePrompt)>>
            /\ UNCHANGED <<pc, name>>
    /\ UNCHANGED <<employees, department, calls>>

\* prompt_non_empty_string("Nombre: "): one pass of its loop
NameEntered(l) ==
    LET value == Strip(l) IN
    /\ pc = "name"
    /\ line' = l
    /\ at' = NamePrompt
    /\ IF value # <<>>
       THEN /\ name' = value
            /\ pc' = "salary"
            /\ out' = <<Prompt(SalaryPrompt)>>
       ELSE /\ out' = <<Lit("Entrada vacía. Intente nuevamente."), Prompt(NamePrompt)>>
            /\ UNCHANGED <<pc, name>>
    /\ UNCHANGED <<employees, department, calls>>

\* Mutant of SalaryEntered: prompt_float parses the line and does not return.
SalaryEnteredNeverReturns(l) ==
    LET raw == Strip(l)
        gross_salary == float(raw)
    IN
    /\ pc = "salary"
    /\ line' = l
    /\ at' = SalaryPrompt
    /\ out' = IF gross_salary # ValueError
              THEN <<Prompt(SalaryPrompt)>>
              ELSE <<Lit("Entrada inválida. Ingrese un número válido."),
                     Prompt(SalaryPrompt)>>
    /\ UNCHANGED <<pc, employees, department, name, calls>>

\* Mutant of SalaryEntered: a ValueError is answered with the salary 0.0.
SalaryEnteredDefaultsZero(l) ==
    LET raw == Strip(l)
        gross_salary == IF float(raw) = ValueError THEN Fin(0) ELSE float(raw)
    IN
    /\ pc = "salary"
    /\ line' = l
    /\ at' = SalaryPrompt
    /\ employees' = add_employee(employees, name, department, gross_salary)
    /\ calls' = Append(calls, [name |-> name, department |-> department,
                               gross_salary |-> gross_salary])
    /\ out' = <<Fmt("Guardado {}.", Label(department))>> \o LoopTop
    /\ pc' = "choice"
    /\ department' = None
    /\ name' = <<>>

\* prompt_float("Sueldo Bruto: "): one pass of its loop; on a parsed number
\* the rest of handle_add_employee and the return to the top of the main loop.
\* raw and gross_salary are bound by \E over a one-element set, so each is
\* computed once.
SalaryEntered(l) ==
    /\ pc = "salary"
    /\ line' = l
    /\ at' = SalaryPrompt
    /\ \E raw \in {Strip(l)} : \E gross_salary \in {float(raw)} :
          IF gross_salary # ValueError
          THEN /\ employees' = add_employee(employees, name, department, gross_salary)
               /\ calls' = Append(calls, [name |-> name, department |-> department,
                                          gross_salary |-> gross_salary])
               /\ out' = <<Fmt("Guardado {}.", Label(department))>> \o LoopTop
               /\ pc' = "choice"
               /\ department' = None
               /\ name' = <<>>
          ELSE /\ out' = <<Lit("Entrada inválida. Ingrese un número válido."),
                           Prompt(SalaryPrompt)>>
               /\ UNCHANGED <<pc, employees, department, name, calls>>

Next ==
    \/ Start
    \/ \E l \in MenuInputs : AddOption(l)
    \/ \E l \in MenuInputs : ReportOption(l)
    \/ \E l \in MenuInputs : ExitOption(l)
    \/ \E l \in MenuInputs : InvalidOption(l)
    \/ \E l \in NameInputs : NameEntered(l)
    \/ \E l \in SalaryInputs : SalaryEntered(l)

Spec == Init /\ [][Next]_vars

-----------------------------------------------------------------------------
(* The session with a user who, asked for a name or a salary, does not     *)
(* answer with rejected lines forever.                                     *)

LiveMenuInputs == { <<"1">>, <<"2">>, <<"3">>, <<"4">>, <<"5">>, <<"9">> }

LiveNameInputs == { <<>>, <<"A", " ", "B">> }

LiveSalaryInputs == { <<"a", "b", "c">>, <<"1", "0">>, <<"n", "a", "n">> }

NextLive ==
    \/ Start
    \/ \E l \in LiveMenuInputs : AddOption(l)
    \/ \E l \in LiveMenuInputs : ReportOption(l)
    \/ \E l \in LiveMenuInputs : ExitOption(l)
    \/ \E l \in LiveMenuInputs : InvalidOption(l)
    \/ \E l \in LiveNameInputs : NameEntered(l)
    \/ \E l \in LiveSalaryInputs : SalaryEntered(l)

\* prompt_non_empty_string returns: the user entered a non-empty name
NameAccepted == \E l \in LiveNameInputs : NameEntered(l) /\ pc' = "salary"

\* prompt_float returns: the user entered a parseable number
SalaryAccepted == \E l \in LiveSalaryInputs : SalaryEntered(l) /\ pc' = "choice"

SpecLive ==
    Init /\ [][NextLive]_vars /\ WF_vars(NameAccepted) /\ WF_vars(SalaryAccepted)

-----------------------------------------------------------------------------
(* Direct calls of Department.from_menu_option, one token per behaviour *)

TokenChars == {"1", "2", "3", "4", "5", " "}

Tokens == UNION {[1..n -> TokenChars] : n \in 0..MaxTokenLen}

InitTokens ==
    /\ pc = "call"
    /\ line \in Tokens
    /\ department = None
    /\ employees = <<>>
    /\ name = <<>>
    /\ at = "none"
    /\ out = <<>>
    /\ calls = <<>>

\* department = Department.from_menu_option(line)
CallFromMenuOption ==
    /\ pc = "call"
    /\ department' = from_menu_option(line)
    /\ pc' = "returned"
    /\ UNCHANGED <<employees, name, line, at, out, calls>>

NextTokens == CallFromMenuOption

SpecTokens == InitTokens /\ [][NextTokens]_vars

-----------------------------------------------------------------------------
(* Vocabulary of the properties *)

\* l without its leading and trailing whitespace, stated without recursion
TrimOf(l) ==
    LET solid == {i \in 1..Len(l) : l[i] \notin Whitespace}
    IN  IF solid = {} THEN <<>>
        ELSE LET first == CHOOSE i \in solid : \A k \in solid : i <= k
                 last == CHOOSE i \in solid : \A k \in solid : k <= i
             IN  SubSeq(l, first, last)

\* The report option was the last input, so out holds a report.
ReportJustPrinted ==
    pc = "choice" /\ at = ChoicePrompt /\ TrimOf(line) = <<"4">>

\* An add flow completed in the last step.
JustAdded == pc = "choice" /\ at = SalaryPrompt

\* a >= b; every comparison with nan is false
FGe(a, b) == a.k # "nan" /\ b.k # "nan" /\ ~FGt(b, a)

IsPrefix(s, t) == Len(s) <= Len(t) /\ \A i \in 1..Len(s) : s[i] = t[i]

Max(a, b) == IF a >= b THEN a ELSE b

\* The tax rate of the property, in percent.
RatePercent(d) == IF d = "HR" THEN 16 ELSE 15

-----------------------------------------------------------------------------
(* Properties *)

\* C1: every stored record whose gross salary g is finite and >= 0 has the
\* net salary max(g - g*rate(d) - 50, 0), with rate 15% for Sales and IT and
\* 16% for HR; 1000 in Sales nets 800, 200 in HR nets 118, 10 in IT nets 0.
C1_NetSalaryFormula ==
    \A i \in 1..Len(employees) :
        LET e == employees[i]
            g == e.gross_salary
        IN  /\ (g.k = "fin" /\ g.v >= 0) =>
                /\ e.net_salary.k = "fin"
                /\ 100 * e.net_salary.v
                     = Max(g.v * (100 - RatePercent(e.department)) - 500000, 0)
            /\ (g = Fin(100000) /\ e.department = "SALES") => e.net_salary = Fin(80000)
            /\ (g = Fin(20000) /\ e.department = "HR") => e.net_salary = Fin(11800)
            /\ (g = Fin(1000) /\ e.department = "IT") => e.net_salary = Fin(0)

\* C1 witness: a store holding 1000 in Sales at net 800 and 10 in IT at net 0.
C1_Witness ==
    /\ \E i \in 1..Len(employees) :
          /\ employees[i].gross_salary = Fin(100000)
          /\ employees[i].department = "SALES"
          /\ employees[i].net_salary = Fin(80000)
    /\ \E i \in 1..Len(employees) :
          /\ employees[i].gross_salary = Fin(1000)
          /\ employees[i].department = "IT"
          /\ employees[i].net_salary = Fin(0)

\* C2: every record in the store has net_salary >= 0, whatever float the
\* salary prompt parsed (zero, negative, inf, nan included).
C2_NetSalaryNonNegative ==
    \A i \in 1..Len(employees) : FGe(employees[i].net_salary, Fin(0))


\* C3: after N calls of add_employee the store holds exactly N records, in
\* call order and with the arguments of the calls (same names included), and
\* a report prints exactly N blocks (name, label, net salary, separator) in
\* that order; 1000 in Sales then 200 in HR are reported as 800.0 then 118.0.
C3_StoreAndReportOrder ==
    /\ Len(employees) = Len(calls)
    /\ \A i \in 1..Len(calls) :
          /\ employees[i].name = calls[i].name
          /\ employees[i].department = calls[i].department
          /\ employees[i].gross_salary = calls[i].gross_salary
    /\ ReportJustPrinted =>
          /\ Cardinality({k \in 1..Len(out) : out[k].fmt = "Emp: {}"}) = Len(employees)
          /\ Cardinality({k \in 1..Len(out) : out[k].fmt = "----------------"})
                = Len(employees)
          /\ \A i \in 1..Len(employees) :
                LET b == 4 * (i - 1) IN
                /\ out[b + 1] = Fmt("Emp: {}", employees[i].name)
                /\ out[b + 2] = Fmt("Depto: {}", Label(employees[i].department))
                /\ out[b + 3] = Fmt("Pago Final: {}", FormatFloat(employees[i].net_salary))
                /\ out[b + 4] = Lit("----------------")
          /\ ( /\ Len(employees) = 2
               /\ employees[1].department = "SALES"
               /\ employees[1].gross_salary = Fin(100000)
               /\ employees[2].department = "HR"
               /\ employees[2].gross_salary = Fin(20000) )
             => /\ out[3].arg = <<"8", "0", "0", ".", "0">>
                /\ out[7].arg = <<"1", "1", "8", ".", "0">>

\* C3 witness: a report of two records added under the same name, 1000 in
\* Sales first and 200 in HR second.
C3_Witness ==
    /\ ReportJustPrinted
    /\ Len(employees) = 2
    /\ employees[1].name = employees[2].name
    /\ employees[1].department = "SALES"
    /\ employees[1].gross_salary = Fin(100000)
    /\ employees[2].department = "HR"
    /\ employees[2].gross_salary = Fin(20000)

\* C4: records are never mutated or removed: in every step the store before
\* the step is a prefix of the store after it, field for field.
C4_AppendOnly == [][IsPrefix(employees, employees')]_vars

\* C4 witness: a second record has just been appended behind a first one.
C4_Witness == JustAdded /\ Len(employees) = 2 /\ employees[1] # employees[2]

\* C5: a report of the empty store prints exactly the line "No hay nadie"
\* (then the menu of the next loop pass) and no line of an employee block.
C5_EmptyReport ==
    (ReportJustPrinted /\ employees = <<>>) =>
        /\ out = <<Lit("No hay nadie")>> \o print_menu \o <<Prompt(ChoicePrompt)>>
        /\ \A k \in 1..Len(out) :
              out[k].fmt \notin {"Emp: {}", "Depto: {}", "Pago Final: {}", "----------------"}

\* C5 witness: the report option was taken before any employee was added.
C5_Witness == ReportJustPrinted /\ employees = <<>> /\ out[1] = Lit("No hay nadie")

\* C6: from_menu_option returns Sales exactly for "1", IT exactly for "2",
\* HR exactly for "3" and None for every other token ("4", "5", "", " 1").
C6_FromMenuOption ==
    pc = "returned" =>
        /\ department \in Departments \cup {None}
        /\ department = "SALES" <=> line = <<"1">>
        /\ department = "IT" <=> line = <<"2">>
        /\ department = "HR" <=> line = <<"3">>
        /\ line \in {<<"4">>, <<"5">>, <<>>, <<" ", "1">>, <<"1", " ">>} => department = None

\* C6 witness: the untrimmed token " 1" was looked up and gave None.
C6_Witness == pc = "returned" /\ line = <<" ", "1">> /\ department = None

\* C7: a line read at the choice prompt whose trimmed value is none of "1".."5"
\* prints "Error", leaves the store unchanged, does not end the session and
\* shows the menu and the choice prompt again.
C7_InvalidOption ==
    [][ ( /\ pc = "choice"
          /\ TrimOf(line') \notin {<<"1">>, <<"2">>, <<"3">>, <<"4">>, <<"5">>} )
        => /\ out' = <<Lit("Error")>> \o print_menu \o <<Prompt(ChoicePrompt)>>
           /\ employees' = employees
           /\ pc' = "choice" ]_vars

\* C7 witness: "9" was answered at the choice prompt of a non-empty store.
C7_Witness ==
    /\ pc = "choice" /\ at = ChoicePrompt /\ line = <<"9">>
    /\ out[1] = Lit("Error") /\ employees # <<>>

\* C8: a step ends the session exactly when it reads, at the choice prompt,
\* a line whose trimmed value is "5" (not at the name or salary prompt, not
\* any other line), and no step is taken once the session has exited.
C8_ExitOnlyOnFive ==
    [][ /\ pc # "exited"
        /\ pc' = "exited" <=>
              (pc = "choice" /\ at' = ChoicePrompt /\ TrimOf(line') = <<"5">>) ]_vars

\* C8 witness: the session exited on the line " 5 " after an employee named
\* "5" was added.
C8_Witness ==
    /\ pc = "exited" /\ line = <<" ", "5", " ">>
    /\ \E i \in 1..Len(employees) : employees[i].name = <<"5">>

\* C9: a parsed gross salary that is zero or negative completes the add flow
\* without a re-prompt: one record with that gross salary is appended and
\* its net salary is 0.0.
C9_NonPositiveGrossNetsZero ==
    [][ ( /\ pc = "salary"
          /\ float(line') # ValueError
          /\ FGe(Fin(0), float(line')) )
        => /\ pc' = "choice"
           /\ Len(employees') = Len(employees) + 1
           /\ employees'[Len(employees')].gross_salary = float(line')
           /\ employees'[Len(employees')].net_salary = Fin(0) ]_vars

\* C10 as stated: the accepted name is the entered line itself, non-empty,
\* and it is the name of the record the flow appends.
C10_NameIsEnteredLine ==
    [][ /\ (pc = "name" /\ pc' = "salary") => (name' = line' /\ name' # <<>>)
        /\ (pc = "salary" /\ pc' = "choice") =>
              employees'[Len(employees')].name = name ]_vars

\* C10 amended: the accepted name is the entered line without its leading
\* and trailing whitespace, non-empty, inner whitespace kept, and it is the
\* name of the record the flow appends.
C10_NameIsTrimmedLine ==
    [][ /\ (pc = "name" /\ pc' = "salary") => (name' = TrimOf(line') /\ name' # <<>>)
        /\ (pc = "salary" /\ pc' = "choice") =>
              /\ Len(employees') = Len(employees) + 1
              /\ employees'[Len(employees')].name = name ]_vars

\* C10 witness: the line " A B " was entered at the name prompt and the name
\* "A B" accepted.
C10_Witness ==
    /\ pc = "salary" /\ at = NamePrompt
    /\ line = <<" ", "A", " ", "B", " ">>
    /\ name = <<"A", " ", "B">>


\* The five-option menu as the user sees it, and the title line of the banner.
MenuText ==
    << Lit(""), Lit("1. Agregar empleado Ventas"), Lit("2. Agregar empleado IT"),
       Lit("3. Agregar empleado RRHH"), Lit("4. Ver reporte"), Lit("5. Salir"), Lit("") >>

BannerTitle == Lit("SISTEMA DE NOMINAS V2.3 FINAL_REAL_AHORA_SI")

\* C12: every choice prompt in the output comes right after one rendering of
\* the five-option menu (after an add, a report, an invalid choice and at
\* startup alike), the session waits for a choice only behind such a prompt,
\* and the banner is printed once, ahead of the first menu and of any input.
C12_MenuBeforeEveryChoicePrompt ==
    LET prompts == {k \in 1..Len(out) : out[k] = Prompt(ChoicePrompt)}
        menus == {k \in 1..Len(out) : out[k] = Lit("5. Salir")}
        banners == {k \in 1..Len(out) : out[k] = BannerTitle}
    IN  /\ pc = "choice" => (out # <<>> /\ Len(out) \in prompts)
        /\ \A k \in prompts : k > 7 /\ SubSeq(out, k - 7, k - 1) = MenuText
        /\ Cardinality(menus) = Cardinality(prompts)
        /\ (pc = "choice" /\ at = "none") => banners = {2}
        /\ banners # {} =>
              /\ at = "none"
              /\ banners = {2}
              /\ out[1] = Lit("********************************")
              /\ out[3] = Lit("********************************")
              /\ SubSeq(out, 4, 10) = MenuText
              /\ prompts = {11}

\* C12 witness: the choice prompt after a completed add, behind the
\* confirmation line and one menu.
C12_Witness ==
    /\ JustAdded
    /\ Len(out) = 9
    /\ out[1].fmt = "Guardado {}."
    /\ SubSeq(out, 2, 8) = MenuText
    /\ out[9] = Prompt(ChoicePrompt)


\* C13: an add flow started by option "1", "2" or "3" carries the department
\* that option resolves to (1 Sales, 2 IT, 3 HR) and the accepted name
\* through its prompts; when it completes it appends exactly one record with
\* that department, that name and the parsed salary, prints
\* "Guardado <label>." for that department and is back at the choice prompt.
C13_AddFlowAppendsResolvedRecord ==
    [][ /\ (pc = "choice" /\ TrimOf(line') \in {<<"1">>, <<"2">>, <<"3">>}) =>
              /\ pc' = "name"
              /\ employees' = employees
              /\ department' = CASE TrimOf(line') = <<"1">> -> "SALES"
                                 [] TrimOf(line') = <<"2">> -> "IT"
                                 [] TrimOf(line') = <<"3">> -> "HR"
        /\ (pc \in {"name", "salary"} /\ pc' \in {"name", "salary"}) =>
              /\ department' = department
              /\ employees' = employees
              /\ pc = "salary" => name' = name
        /\ (pc = "salary" /\ pc' = "choice") =>
              /\ employees' = Append(employees,
                                     [name |-> name, department |-> department,
                                      gross_salary |-> float(line'),
                                      net_salary |-> employees'[Len(employees')].net_salary])
              /\ TrimOf(line') = <<"2", "0", "0">> =>
                    employees'[Len(employees')].gross_salary = Fin(20000)
              /\ out'[1] = Fmt("Guardado {}.",
                               CASE department = "SALES" -> Ventas
                                 [] department = "IT" -> ITLabel
                                 [] department = "HR" -> RRHH)
              /\ out'[Len(out')] = Prompt(ChoicePrompt)
        /\ (pc \in {"name", "salary"} /\ pc' \notin {"name", "salary"}) =>
              (pc = "salary" /\ pc' = "choice") ]_vars

\* C13 witness: a flow started by "3" completed with the salary 200: the
\* last record is in HR and "Guardado RRHH." was printed.
C13_Witness ==
    /\ JustAdded
    /\ employees[Len(employees)].department = "HR"
    /\ employees[Len(employees)].gross_salary = Fin(20000)
    /\ out[1] = Fmt("Guardado {}.", RRHH)


\* C14: at the name prompt a line that is empty or only whitespace prints
\* the empty-input message, keeps the flow at the name prompt and the store
\* as it was; the salary prompt is never reached, and no record is ever
\* stored, with an empty name.
C14_EmptyNameReprompts ==
    [][ /\ (pc = "name" /\ \A i \in 1..Len(line') : line'[i] \in Whitespace) =>
              /\ pc' = "name"
              /\ out' = << Lit("Entrada vacía. Intente nuevamente."),
                           Prompt(NamePrompt) >>
              /\ employees' = employees
              /\ department' = department
        /\ pc' = "salary" =>
              (name' # <<>> /\ \E i \in 1..Len(name') : name'[i] \notin Whitespace)
        /\ \A i \in 1..Len(employees') :
              /\ employees'[i].name # <<>>
              /\ \E k \in 1..Len(employees'[i].name) :
                    employees'[i].name[k] \notin Whitespace ]_vars

\* C14 witness: a blank line was answered at the name prompt of a flow that
\* still waits for the name.
C14_Witness ==
    /\ pc = "name" /\ at = NamePrompt /\ line = <<" ">>
    /\ out[1] = Lit("Entrada vacía. Intente nuevamente.")

\* C15: at the salary prompt a line float() rejects ("abc", the empty line)
\* prints the invalid-number message, keeps the flow at the salary prompt
\* with the accepted name and the department, and leaves the store as it
\* was; a record is appended only by a step that reads a parseable number.
C15_InvalidSalaryReprompts ==
    [][ /\ (pc = "salary" /\ float(line') = ValueError) =>
              /\ pc' = "salary"
              /\ out' = << Lit("Entrada inválida. Ingrese un número válido."),
                           Prompt(SalaryPrompt) >>
              /\ name' = name
              /\ department' = department
              /\ employees' = employees
        /\ (pc = "salary" /\ TrimOf(line') \in {<<"a", "b", "c">>, <<>>}) =>
              (pc' = "salary" /\ employees' = employees)
        /\ employees' # employees =>
              /\ pc = "salary"
              /\ TrimOf(line') \notin {<<"a", "b", "c">>, <<>>}
              /\ float(line') # ValueError ]_vars

\* C15 witness: "abc" was answered at the salary prompt; the flow still
\* waits for the salary and holds the name "A B".
C15_Witness ==
    /\ pc = "salary" /\ at = SalaryPrompt /\ line = <<"a", "b", "c">>
    /\ name = <<"A", " ", "B">>
    /\ out[1] = Lit("Entrada inválida. Ingrese un número válido.")


\* C16: every record in the store carries the net salary that
\* calculate_net_salary gives for the record's own gross salary and
\* department (the same float, nan included).
C16_StoredNetIsDerived ==
    \A i \in 1..Len(employees) :
        /\ employees[i].department \in DOMAIN TAX_RATES
        /\ employees[i].net_salary
              = calculate_net_salary(employees[i].gross_salary, employees[i].department)

\* C16 witness: an HR record and a Sales record with the same gross salary
\* 1000 and different net salaries, 790 and 800.
C16_Witness ==
    /\ Len(employees) = 2
    /\ employees[1].department = "HR"
    /\ employees[1].gross_salary = Fin(100000)
    /\ employees[1].net_salary = Fin(79000)
    /\ employees[2].department = "SALES"
    /\ employees[2].gross_salary = Fin(100000)
    /\ employees[2].net_salary = Fin(80000)

\* C17: the report option leaves the store as it was, empty or not, and
\* returns to the choice prompt; a report that follows a report prints the
\* same lines.
C17_ReportLeavesStore ==
    [][ (pc = "choice" /\ TrimOf(line') = <<"4">>) =>
            /\ employees' = employees
            /\ calls' = calls
            /\ pc' = "choice"
            /\ out'[Len(out')] = Prompt(ChoicePrompt)
            /\ ReportJustPrinted => out' = out ]_vars

\* C17 witness: a report of a store that holds one record.
C17_Witness ==
    /\ ReportJustPrinted
    /\ Len(employees) = 1
    /\ out[1] = Fmt("Emp: {}", employees[1].name)

\* C18: has_employees is true exactly when an add flow has completed, and a
\* report printed after a completed add has no line "No hay nadie".
C18_NeverEmptyAfterAdd ==
    /\ has_employees(employees) <=> calls # <<>>
    /\ (ReportJustPrinted /\ calls # <<>>) =>
          /\ \A k \in 1..Len(out) : out[k] # Lit("No hay nadie")
          /\ out[1].fmt = "Emp: {}"
    /\ (ReportJustPrinted /\ calls = <<>>) => out[1] = Lit("No hay nadie")

\* C18 witness: a report printed after two adds completed, starting with an
\* employee block.
C18_Witness ==
    /\ ReportJustPrinted
    /\ Len(calls) = 2
    /\ out[1].fmt = "Emp: {}"
    /\ out[5].fmt = "Emp: {}"


\* C19: the assertion "department is not None" of main never fails, the
\* department of a flow in progress and of every stored record is one of
\* Sales, IT, HR, and each is a key of TAX_RATES.
C19_DepartmentAlwaysValid ==
    /\ pc # "assert_failed"
    /\ pc \in {"name", "salary"} =>
          (department \in {"SALES", "IT", "HR"} /\ department \in DOMAIN TAX_RATES)
    /\ \A i \in 1..Len(employees) :
          /\ employees[i].department \in {"SALES", "IT", "HR"}
          /\ employees[i].department \in DOMAIN TAX_RATES

\* C19 witness: option "3" passed the assertion and its flow waits for the
\* salary, behind a stored IT record.
C19_Witness ==
    /\ pc = "salary"
    /\ department = "HR"
    /\ Len(employees) = 1
    /\ employees[1].department = "IT"

\* C20: with a user who eventually enters a non-empty name and then a
\* parseable number, a started add flow leads to the choice prompt with one
\* more record in the store; a step that reads a rejected line keeps the
\* flow at its prompt and the store as it was, and no step of a flow exits
\* or changes the store before the flow completes.
C20_AddFlowCompletes ==
    /\ \A n \in 0..(MaxEmployees - 1) :
          (pc \in {"name", "salary"} /\ Len(employees) = n)
             ~> (pc = "choice" /\ at = SalaryPrompt /\ Len(employees) = n + 1)
    /\ [][ /\ (pc = "name" /\ TrimOf(line') = <<>>) =>
                 (pc' = "name" /\ employees' = employees)
           /\ (pc = "salary" /\ float(line') = ValueError) =>
                 (pc' = "salary" /\ employees' = employees)
           /\ pc \in {"name", "salary"} =>
                 /\ pc' \in {"name", "salary", "choice"}
                 /\ pc' # "choice" => employees' = employees
                 /\ pc' = "choice" => Len(employees') = Len(employees) + 1 ]_vars

\* C20 witness: a second flow completed on the salary "10".
C20_Witness ==
    /\ JustAdded
    /\ Len(employees) = 2
    /\ line = <<"1", "0">>
    /\ employees[2].gross_salary = Fin(1000)

=============================================================================
